---------------------------- MODULE Spec2Model ----------------------------
(***************************************************************************)
(* A model of django_translate_gettext/services/translators.py:            *)
(* PoFileTranslator (the catalog driver, the single-line translator and    *)
(* the multi-line rewriter) and MultilineText (the multi-line parser).     *)
(*                                                                         *)
(* A Python str is a sequence of characters; a character is a one-letter   *)
(* TLA+ string (the control characters re.sub can produce from \a, \b and  *)
(* \v carry their names).  A raised exception is a record with ok = FALSE   *)
(* that names the exception.                                               *)
(***************************************************************************)
EXTENDS Integers, Sequences, FiniteSets, TLC

(***************************************************************************)
(* Characters and literals                                                 *)
(***************************************************************************)
Q == "\""
BSL == "\\"
NL == "\n"
SP == " "

\* str.split() and str.strip() without arguments act on Python whitespace
Whitespace == {" ", "\n", "\t", "\r", "\f", "VT"}

AsciiLetters ==
    {"a","b","c","d","e","f","g","h","i","j","k","l","m","n","o","p","q","r",
     "s","t","u","v","w","x","y","z","A","B","C","D","E","F","G","H","I","J",
     "K","L","M","N","O","P","Q","R","S","T","U","V","W","X","Y","Z"}

kwMsgid == <<"m","s","g","i","d">>
kwMsgstr == <<"m","s","g","s","t","r">>
\* the literal prefixes of the patterns  msgid "(.*?)"  and  msgstr "(.*?)"
patMsgid == kwMsgid \o <<SP, Q>>
patMsgstr == kwMsgstr \o <<SP, Q>>
\* '\\n' in the source: a backslash and the letter n
EscapedNewline == <<BSL, "n">>
\* '"\n"' in the source: a quote, a line feed, a quote
QuoteNewlineQuote == <<Q, NL, Q>>
BlockSeparator == <<NL, NL>>

(***************************************************************************)
(* Python str primitives                                                   *)
(***************************************************************************)
SetMin(S) == CHOOSE x \in S : \A y \in S : x <= y
SetMax(S) == CHOOSE x \in S : \A y \in S : x >= y

\* one bound of a slice s[lo:hi], as Python clamps it (0-based)
ClampIndex(n, k) == IF k < 0 THEN (IF n + k < 0 THEN 0 ELSE n + k)
                    ELSE (IF k > n THEN n ELSE k)

\* s[lo:hi]
PySlice(s, lo, hi) ==
    LET a == ClampIndex(Len(s), lo)
        b == ClampIndex(Len(s), hi)
    IN  IF b <= a THEN <<>> ELSE SubSeq(s, a + 1, b)

\* s[lo:]
PyFrom(s, lo) == PySlice(s, lo, Len(s))

\* whether pat occurs in s at (1-based) position p
StartsAt(s, p, pat) ==
    /\ p >= 1
    /\ p + Len(pat) - 1 <= Len(s)
    /\ SubSeq(s, p, p + Len(pat) - 1) = pat

\* s.find(pat, p): the first occurrence of pat at or after p, 0 when none
FindFrom(s, p, pat) ==
    LET C == {q \in p..(Len(s) - Len(pat) + 1) : StartsAt(s, q, pat)}
    IN  IF C = {} THEN 0 ELSE SetMin(C)

\* s.split(sep), for a non-empty sep
RECURSIVE SplitOn(_, _)
SplitOn(s, sep) ==
    LET q == FindFrom(s, 1, sep)
    IN  IF q = 0 THEN <<s>>
        ELSE <<SubSeq(s, 1, q - 1)>>
             \o SplitOn(SubSeq(s, q + Len(sep), Len(s)), sep)

\* sep.join(parts)
RECURSIVE JoinWith(_, _)
JoinWith(parts, sep) ==
    IF parts = <<>> THEN <<>>
    ELSE IF Len(parts) = 1 THEN parts[1]
    ELSE parts[1] \o sep \o JoinWith(Tail(parts), sep)

\* s.strip()
Strip(s) ==
    LET C == {p \in 1..Len(s) : s[p] \notin Whitespace}
    IN  IF C = {} THEN <<>> ELSE SubSeq(s, SetMin(C), SetMax(C))

\* tok in s.split(): tok is a maximal run of non-whitespace characters of s
HasToken(s, tok) ==
    \E p \in 1..Len(s) :
        /\ StartsAt(s, p, tok)
        /\ (p = 1 \/ s[p - 1] \in Whitespace)
        /\ (p + Len(tok) > Len(s) \/ s[p + Len(tok)] \in Whitespace)

\* s.split() != []
HasAnyToken(s) == \E p \in 1..Len(s) : s[p] \notin Whitespace

\* ' ' * n
Spaces(n) == [p \in 1..n |-> SP]

(***************************************************************************)
(* The regular expressions of the module                                   *)
(***************************************************************************)
\* (.*?)" from position p: the first quote on the line, 0 when the line ends
\* first.  The lazy group takes the fewest characters, none of them a line feed.
ClosingQuote(s, p) ==
    LET C == {q \in p..Len(s) : s[q] \in {Q, NL}}
    IN  IF C = {} THEN 0
        ELSE IF s[SetMin(C)] = Q THEN SetMin(C) ELSE 0

\* the start of the leftmost match of  <pat>(.*?)"  at or after p, 0 when none
NextMatch(s, p, pat) ==
    LET C == {q \in p..Len(s) :
                StartsAt(s, q, pat) /\ ClosingQuote(s, q + Len(pat)) # 0}
    IN  IF C = {} THEN 0 ELSE SetMin(C)

\* re.findall(r'<pat>(.*?)"', s): the captured groups, left to right
RECURSIVE FindAllFrom(_, _, _)
FindAllFrom(s, p, pat) ==
    LET m == NextMatch(s, p, pat)
    IN  IF m = 0 THEN <<>>
        ELSE LET c == ClosingQuote(s, m + Len(pat))
             IN  <<SubSeq(s, m + Len(pat), c - 1)>> \o FindAllFrom(s, c + 1, pat)

FindAll(pat, s) == FindAllFrom(s, 1, pat)

\* re.sub(r'<pat>(.*?)"', repl, s) with repl already expanded: every match
\* replaced.  r'msgstr "(.*?)*"' matches the same spans: each round of the
\* starred group is lazy, so the match still ends at the first quote.
RECURSIVE SubAllFrom(_, _, _, _)
SubAllFrom(s, p, pat, repl) ==
    LET m == NextMatch(s, p, pat)
    IN  IF m = 0 THEN SubSeq(s, p, Len(s))
        ELSE SubSeq(s, p, m - 1) \o repl
             \o SubAllFrom(s, ClosingQuote(s, m + Len(pat)) + 1, pat, repl)

\* The replacement template of re.sub: \n, \t, \r, \f, \a, \b, \v and \\ are
\* escapes, a backslash before any other ASCII letter or at the end is
\* re.error, a backslash before anything else stays.  (\g opens a group
\* reference that needs "<", and the model's texts hold neither "<" nor digits.)
EscapeValue(c) ==
    CASE c = "n" -> NL
      [] c = "t" -> "\t"
      [] c = "r" -> "\r"
      [] c = "f" -> "\f"
      [] c = "a" -> "BEL"
      [] c = "b" -> "BS"
      [] c = "v" -> "VT"
      [] OTHER -> BSL

RECURSIVE ExpandFrom(_, _)
ExpandFrom(tpl, p) ==
    IF p > Len(tpl) THEN [ok |-> TRUE, s |-> <<>>]
    ELSE IF tpl[p] # BSL THEN
        LET q == FindFrom(tpl, p, <<BSL>>)
            e == IF q = 0 THEN Len(tpl) + 1 ELSE q
            rest == ExpandFrom(tpl, e)
        IN  [ok |-> rest.ok, s |-> SubSeq(tpl, p, e - 1) \o rest.s]
    ELSE IF p = Len(tpl) THEN [ok |-> FALSE, s |-> <<>>]
    ELSE IF tpl[p + 1] \in {"n","t","r","f","a","b","v",BSL} THEN
        LET rest == ExpandFrom(tpl, p + 2)
        IN  [ok |-> rest.ok, s |-> <<EscapeValue(tpl[p + 1])>> \o rest.s]
    ELSE IF tpl[p + 1] \in AsciiLetters THEN [ok |-> FALSE, s |-> <<>>]
    ELSE
        LET rest == ExpandFrom(tpl, p + 2)
        IN  [ok |-> rest.ok, s |-> <<BSL, tpl[p + 1]>> \o rest.s]

ExpandTemplate(tpl) == ExpandFrom(tpl, 1)

\* re.sub(pattern, template, s): re.error when the template is malformed
ReSub(pat, tpl, s) ==
    LET e == ExpandTemplate(tpl)
    IN  IF e.ok THEN [ok |-> TRUE, s |-> SubAllFrom(s, 1, pat, e.s)]
        ELSE [ok |-> FALSE, s |-> <<>>]

(***************************************************************************)
(* The translation backend (GoogleTranslator.translate), an external       *)
(* collaborator: a sample of total text mappings.  Whether one call raises *)
(* is chosen by the caller's action.                                       *)
(***************************************************************************)
BackendKinds == {"echo", "suffix"}

Translate(kind, text) ==
    IF kind = "suffix" THEN text \o <<BSL, BSL>> ELSE text

(***************************************************************************)
(* PoFileTranslator.translate_block                                        *)
(* The result of a call: ok (no exception), out (the returned text), sent  *)
(* (the texts handed to the backend, in order), err (the exception).       *)
(***************************************************************************)
Returned(text, sent) == [ok |-> TRUE, out |-> text, sent |-> sent, err |-> "none"]
Raised(name, sent) == [ok |-> FALSE, out |-> <<>>, sent |-> sent, err |-> name]

\* AlreadyTranslated with the test of msgstr[0] inverted (if msgstr and not
\* msgstr[0]): a translated block is translated again
AlreadyTranslated_Inverted(block) ==
    LET msgstr == FindAll(patMsgstr, block)
    IN  msgstr # <<>> /\ msgstr[1] = <<>>

\* msgstr and msgstr[0]: the first msgstr "..." of the block holds text
AlreadyTranslated(block) ==
    LET msgstr == FindAll(patMsgstr, block)
    IN  msgstr # <<>> /\ msgstr[1] # <<>>

translate_block(block, msgid, kind, fails) ==
    IF AlreadyTranslated(block) THEN Returned(block, <<>>)
    ELSE IF msgid = <<>> THEN Raised("IndexError", <<>>)
    ELSE IF fails THEN Raised("BackendError", <<msgid[1]>>)
    ELSE
        LET translated == Translate(kind, msgid[1])
            r == ReSub(patMsgstr, patMsgstr \o translated \o <<Q>>, block)
        IN  IF r.ok THEN Returned(r.s, <<msgid[1]>>)
            ELSE Raised("re.error", <<msgid[1]>>)

(***************************************************************************)
(* PoFileTranslator.process_first_block                                    *)
(***************************************************************************)
process_first_block(block, kind, fails) ==
    LET parts == SplitOn(block, <<NL>>)
        n == Len(parts)
    IN  IF n < 2 THEN Raised("IndexError", <<>>)
        ELSE
            LET raw_msgid == parts[n - 1]
                raw_msgstr == parts[n]
                msgid == FindAll(patMsgid, raw_msgid)
                r == translate_block(raw_msgstr, msgid, kind, fails)
            IN  IF r.ok
                THEN Returned(JoinWith([parts EXCEPT ![n] = r.out], <<NL>>), r.sent)
                ELSE r

(***************************************************************************)
(* MultilineText.get_regex_block: the first match of                       *)
(*   (msgid "(.*?)"\n"\\n"\n)((".*"\n)+)(msgstr)                           *)
(* as the tuple of its five groups, or the empty tuple.                    *)
(***************************************************************************)
\* what follows the lazy group of group 1: a quote, a line feed, the line
\* "\n" (a backslash and an n between quotes) and its line feed
HeadTail == <<Q, NL, Q, BSL, "n", Q, NL>>

\* the line feed ending the line that starts at p, 0 when the text ends first
LineEnd(s, p) == FindFrom(s, p, <<NL>>)

\* ".*"\n at p: one whole line that starts and ends with a quote
QuotedLineAt(s, p) ==
    LET e == LineEnd(s, p)
    IN  /\ p <= Len(s)
        /\ s[p] = Q
        /\ e # 0
        /\ e - 1 > p
        /\ s[e - 1] = Q

\* (".*"\n)+ from p, greedy: the position after the last quoted line of the run
RECURSIVE QuotedRunEnd(_, _)
QuotedRunEnd(s, p) ==
    IF QuotedLineAt(s, p) THEN QuotedRunEnd(s, LineEnd(s, p) + 1) ELSE p

\* the start of the last quoted line of the run from p that ends before e
RECURSIVE LastLineStart(_, _, _)
LastLineStart(s, p, e) ==
    IF LineEnd(s, p) + 1 >= e THEN p ELSE LastLineStart(s, LineEnd(s, p) + 1, e)

\* where the lazy group of group 1 ends when the match starts at p: the quote
\* before the first line feed, 0 when the head does not match
HeadQuote(s, p) ==
    LET e == LineEnd(s, p + Len(patMsgid))
    IN  IF e # 0 /\ e - 1 >= p + Len(patMsgid) /\ StartsAt(s, e - 1, HeadTail)
        THEN e - 1 ELSE 0

MatchesAt(s, p) ==
    /\ StartsAt(s, p, patMsgid)
    /\ HeadQuote(s, p) # 0
    /\ LET first == HeadQuote(s, p) + Len(HeadTail)
       IN  /\ QuotedLineAt(s, first)
           /\ StartsAt(s, QuotedRunEnd(s, first), kwMsgstr)

get_regex_block(block) ==
    LET C == {p \in 1..Len(block) : MatchesAt(block, p)}
    IN  IF C = {} THEN <<>>
        ELSE
            LET p == SetMin(C)
                h == HeadQuote(block, p)
                first == h + Len(HeadTail)
                e == QuotedRunEnd(block, first)
            IN  << SubSeq(block, p, first - 1),
                   SubSeq(block, p + Len(patMsgid), h - 1),
                   SubSeq(block, first, e - 1),
                   SubSeq(block, LastLineStart(block, first, e), e - 1),
                   kwMsgstr >>

\* self.indentation_depth = None in MultilineText.__init__
NoneDepth == -1

\* MultilineText.try_create_multline: the fields of the object it returns.
\* It returns None exactly when regex is empty, and no object has an empty
\* regex_block, so the record with regex_block = <<>> stands for None.
try_create_multline(block) ==
    [block |-> block, regex_block |-> get_regex_block(block),
     indentation_depth |-> NoneDepth]

IsNone(multiline_text) == Len(multiline_text.regex_block) = 0

(***************************************************************************)
(* MultilineText.get_indentation_depth and MultilineText.get_content       *)
(***************************************************************************)
check_strings == {kwMsgid, <<>>, kwMsgstr, EscapedNewline}
check_punctuation == {<<>>, <<Q>>, <<"'">>, <<Q, Q>>, <<"'", "'">>}

\* string[0] raises IndexError on the empty string; the result is
\* len(reduced) + 1 with the second assignment of reduced
get_indentation_depth(string) ==
    IF string = <<>> THEN [ok |-> FALSE, depth |-> 0]
    ELSE
        LET reduced == IF string[Len(string)] \in {Q, "'"}
                       THEN PySlice(string, 0, -2) ELSE string
        IN  [ok |-> TRUE, depth |-> Len(reduced) + 1]

\* not self.indentation_depth: None and 0 are both falsy
DepthUnset(depth) == depth = NoneDepth \/ depth = 0

\* the line takes part: no token of it is in check_strings, and it has tokens
CarriesText(line) ==
    /\ ~ \E v \in check_strings \ {<<>>} : HasToken(line, v)
    /\ HasAnyToken(line)

\* the inner loop over stripped.split('"\n"'): acc is (ok, depth, cleaned)
RECURSIVE CleanFragments(_, _)
CleanFragments(frags, acc) ==
    IF frags = <<>> \/ ~acc.ok THEN acc
    ELSE
        LET s == Head(frags)
        IN  IF Strip(s) \in check_punctuation THEN
                IF DepthUnset(acc.depth) THEN
                    LET d == get_indentation_depth(s)
                    IN  IF d.ok
                        THEN CleanFragments(Tail(frags), [acc EXCEPT !.depth = d.depth])
                        ELSE [acc EXCEPT !.ok = FALSE]
                ELSE CleanFragments(Tail(frags), acc)
            ELSE CleanFragments(Tail(frags), [acc EXCEPT !.cleaned = @ \o s])

\* cleaned[-3:] == '\\n' compares three characters with two: it holds only
\* when cleaned is exactly the marker, and then cleaned[-3:] is cleaned again
RemoveEscapedNewline(cleaned) ==
    IF PyFrom(cleaned, -3) = EscapedNewline THEN PyFrom(cleaned, -3) ELSE cleaned

\* the outer loop over self.regex_block: acc is (ok, depth, mightBeContent)
RECURSIVE ScanGroups(_, _)
ScanGroups(groups, acc) ==
    IF groups = <<>> \/ ~acc.ok THEN acc
    ELSE
        LET line == Head(groups)
        IN  IF ~CarriesText(line) THEN ScanGroups(Tail(groups), acc)
            ELSE
                LET stripped == Strip(PySlice(line, 1, -1))
                    c == CleanFragments(SplitOn(stripped, QuoteNewlineQuote),
                            [ok |-> TRUE, depth |-> acc.depth, cleaned |-> <<>>])
                    cleaned == RemoveEscapedNewline(c.cleaned)
                IN  IF ~c.ok THEN [acc EXCEPT !.ok = FALSE]
                    ELSE ScanGroups(Tail(groups),
                            [ok |-> TRUE, depth |-> c.depth,
                             might |-> IF cleaned # <<>>
                                       THEN Append(acc.might, cleaned)
                                       ELSE acc.might])

\* get_content on a fresh object: ok (no IndexError), content,
\* indentation_depth
get_content(regex_block) ==
    LET r == ScanGroups(regex_block,
                [ok |-> TRUE, depth |-> NoneDepth, might |-> <<>>])
    IN  IF ~r.ok THEN [ok |-> FALSE, content |-> <<>>, indentation_depth |-> 0]
        ELSE [ok |-> TRUE,
              content |-> JoinWith(r.might, <<SP>>),
              indentation_depth |-> IF DepthUnset(r.depth) THEN 0 ELSE r.depth]

(***************************************************************************)
(* PoFileTranslator.translate_multi_line_block                             *)
(***************************************************************************)
chunk_size == 80

\* translated = self.translator.translate(msgid)[:-2]
StripSuffix(raw) == PySlice(raw, 0, -2)

\* f'"{text}"'
Quoted(text) == <<Q>> \o text \o <<Q>>

\* one round of the while loop, entered with i < len(translated):
\* st is (i, lines)
ChunkStep(translated, depth, st) ==
    LET chunks == Len(translated)
        i == st.i
        j == IF chunk_size + i < chunks THEN chunk_size + i ELSE chunks
        window == PySlice(translated, i, j)
    IN  IF i = 0 THEN
            [i |-> i + chunk_size - depth,
             lines |-> Append(st.lines,
                          Quoted(Spaces(depth) \o PySlice(translated, i, j - depth)))]
        ELSE IF window = <<>> THEN
            [i |-> i + chunk_size, lines |-> st.lines]
        ELSE IF PyFrom(window, -2) = EscapedNewline THEN
            [i |-> i + chunk_size,
             lines |-> Append(st.lines, Quoted(PySlice(window, 0, -2)))]
        ELSE
            [i |-> i + chunk_size, lines |-> Append(st.lines, Quoted(window))]

\* lines[-1] = lines[-1][:-1] + '\\\\n' + '"', on a non-empty list: the
\* closing quote replaced by two backslashes, an n and a quote
TerminalMarker == <<BSL, BSL, "n">>

MarkLast(lines) ==
    [lines EXCEPT ![Len(lines)] = PySlice(@, 0, -1) \o TerminalMarker \o <<Q>>]

\* the list replace
ReplaceLines(depth, lines) ==
    << <<Q, Q>>, <<Q, BSL, BSL, "n", Q>>, Quoted(Spaces(depth)) >>
    \o lines \o << Quoted(Spaces(depth)) >>

\* what follows the loop: IndexError on an empty list, else the re.sub of
\* msgstr "(.*?)" in the block by the template 'msgstr ' + '\n'.join(replace)
FinishBlock(block, depth, lines, sent) ==
    IF lines = <<>> THEN Raised("IndexError", sent)
    ELSE
        LET replace == ReplaceLines(depth, MarkLast(lines))
            r == ReSub(patMsgstr,
                       kwMsgstr \o <<SP>> \o JoinWith(replace, <<NL>>), block)
        IN  IF r.ok THEN Returned(r.s, sent) ELSE Raised("re.error", sent)

(***************************************************************************)
(* The dispatch of PoFileTranslator.translate_locale_path: the call a      *)
(* block is routed to                                                      *)
(***************************************************************************)
Route(block, msgid) ==
    IF Len(msgid) # 1 THEN "process_first_block"
    ELSE IF msgid[1] = <<>> /\ ~IsNone(try_create_multline(block))
         THEN "get_content"
    ELSE "translate_block"

(***************************************************************************)
(* Catalog texts the specification starts from                             *)
(***************************************************************************)
MsgidLine(text) == patMsgid \o text \o <<Q>>
MsgstrLine(text) == patMsgstr \o text \o <<Q>>

\* a single-line block: msgid "<source>" and msgstr "<target>" on two lines
Entry(source, target) == MsgidLine(source) \o <<NL>> \o MsgstrLine(target)

\* the catalog's file-header block: an empty msgid, an empty msgstr and the
\* quoted header lines
HeaderBlock ==
    MsgidLine(<<>>) \o <<NL>> \o MsgstrLine(<<>>) \o <<NL>>
    \o Quoted(<<"X", "-", "G", ":", SP, "p", "o", BSL, "n">>)

\* n continuation lines "<indent><text>[\n]", each ended by a line feed
RECURSIVE ContinuationLines(_, _, _, _)
ContinuationLines(n, depth, text, marker) ==
    IF n = 0 THEN <<>>
    ELSE Quoted(Spaces(depth) \o text \o (IF marker THEN EscapedNewline ELSE <<>>))
         \o <<NL>> \o ContinuationLines(n - 1, depth, text, marker)

\* a multi-line block as the toolchain writes it: msgid "", the line "\n",
\* the continuation lines, with trail a closing indentation-only line, and
\* an empty msgstr
MultiBlock(n, depth, text, marker, trail) ==
    MsgidLine(<<>>) \o <<NL>> \o Quoted(EscapedNewline) \o <<NL>>
    \o ContinuationLines(n, depth, text, marker)
    \o (IF trail THEN Quoted(Spaces(depth)) \o <<NL>> ELSE <<>>)
    \o MsgstrLine(<<>>)

\* 'x' * n
Filler(n) == [p \in 1..n |-> "x"]

Hi == <<"H", "i">>
Yo == <<"Y", "o">>

RECURSIVE SeqsUpTo(_, _)
SeqsUpTo(S, n) ==
    IF n = 0 THEN {<<>>}
    ELSE LET shorter == SeqsUpTo(S, n - 1)
         IN  shorter \cup {Append(q, x) : q \in shorter, x \in S}

RECURSIVE Flatten(_)
Flatten(parts) == IF parts = <<>> THEN <<>> ELSE Head(parts) \o Flatten(Tail(parts))

\* Catalogs of several blocks: an untranslated and a translated entry, the
\* file header, a multi-line block, an entry after a comment that repeats
\* an old msgid, a comment alone, and nothing (two separators in a row).
BlockPool ==
    { Entry(Hi, <<>>),
      Entry(Hi, Yo),
      HeaderBlock,
      MultiBlock(1, 2, <<"a", "b", "c">>, TRUE, TRUE),
      <<"#", "|", SP>> \o MsgidLine(Yo) \o <<NL>> \o Entry(Hi, <<>>),
      <<"#", SP, "c">>,
      <<>> }

MaxBlocks == 2

PoolCatalogs ==
    {JoinWith(blocks, BlockSeparator) : blocks \in SeqsUpTo(BlockPool, MaxBlocks)}

\* Catalogs of one single-line entry whose msgstr is any text of at most
\* MaxUnits units of the PO syntax: a letter, a space, an escaped quote, an
\* escaped newline, an escaped backslash.
TextUnits == { <<"x">>, <<SP>>, <<BSL, Q>>, <<BSL, "n">>, <<BSL, BSL>> }

MaxUnits == 3

EntryCatalogs ==
    {Entry(source, Flatten(target)) :
        source \in {Hi, <<"a", BSL, "n">>}, target \in SeqsUpTo(TextUnits, MaxUnits)}

\* Catalogs of one multi-line block: up to MaxLines continuation lines of
\* up to MaxWidth letters behind up to MaxDepth spaces.
MaxLines == 2
MaxWidth == 40
MaxDepth == 3

MultiCatalogs ==
    {MultiBlock(n, depth, Filler(w), marker, trail) :
        n \in 1..MaxLines, depth \in 0..MaxDepth, w \in 0..MaxWidth,
        marker \in BOOLEAN, trail \in BOOLEAN}

\* the command is run at most MaxRuns times on the same catalog
MaxRuns == 2

(***************************************************************************)
(* State                                                                   *)
(***************************************************************************)
VARIABLES
    exists,         \* po_file.exists()
    disk,           \* the text of the catalog file
    run,            \* the number of calls of translate_locale_path begun
    pc,             \* where the call is: "start", "for", the call a block is
                    \* routed to, "translate", "while", "done" or "raised"
    read_text,      \* what po_file.read_text() returned
    file_content,   \* read_text.split("\n\n")
    idx,            \* the position of the for loop in file_content
    block,          \* the block of this round of the loop
    msgid,          \* re.findall(r'msgid "(.*?)"', block)
    result,         \* the list result
    content,        \* multiline_text.content
    indentation_depth,  \* multiline_text.indentation_depth
    translated,     \* translate_multi_line_block: the text to wrap
    i,              \* translate_multi_line_block: the cursor
    lines,          \* translate_multi_line_block: the wrapped lines
    sent,           \* every text handed to the backend so far
    routes,         \* the call each block of this run was routed to
    writes,         \* the number of po_file.write_text calls
    err,            \* the exception that ended the call, "none" if none
    kind            \* the backend of this run

vars == <<exists, disk, run, pc, read_text, file_content, idx, block, msgid,
          result, content, indentation_depth, translated, i, lines, sent,
          routes, writes, err, kind>>

\* the locals of one round of the for loop
round == <<block, msgid, content, indentation_depth, translated, i, lines>>

(***************************************************************************)
(* PoFileTranslator.translate_locale_path, step by step                    *)
(***************************************************************************)
Init ==
    /\ exists \in BOOLEAN
    /\ disk \in PoolCatalogs \cup EntryCatalogs \cup MultiCatalogs
    /\ kind \in BackendKinds
    /\ run = 1
    /\ pc = "start"
    /\ read_text = <<>>
    /\ file_content = <<>>
    /\ idx = 0
    /\ block = <<>>
    /\ msgid = <<>>
    /\ result = <<>>
    /\ content = <<>>
    /\ indentation_depth = NoneDepth
    /\ translated = <<>>
    /\ i = 0
    /\ lines = <<>>
    /\ sent = <<>>
    /\ routes = <<>>
    /\ writes = 0
    /\ err = "none"

\* if not po_file.exists(): raise TranslatorError
RaiseMissing ==
    /\ pc = "start"
    /\ ~exists
    /\ pc' = "raised"
    /\ err' = "TranslatorError"
    /\ UNCHANGED <<exists, disk, run, read_text, file_content, idx, result,
                   sent, routes, writes, kind>>
    /\ UNCHANGED round

\* result = []; file_content = po_file.read_text().split("\n\n")
ReadFile ==
    /\ pc = "start"
    /\ exists
    /\ read_text' = disk
    /\ file_content' = SplitOn(disk, BlockSeparator)
    /\ idx' = 1
    /\ result' = <<>>
    /\ routes' = <<>>
    /\ pc' = "for"
    /\ UNCHANGED <<exists, disk, run, sent, writes, err, kind>>
    /\ UNCHANGED round

\* if not block: continue
SkipEmpty ==
    /\ pc = "for"
    /\ idx <= Len(file_content)
    /\ file_content[idx] = <<>>
    /\ idx' = idx + 1
    /\ UNCHANGED <<exists, disk, run, pc, read_text, file_content, result,
                   sent, routes, writes, err, kind>>
    /\ UNCHANGED round

\* msgid = re.findall(...) and the tests that choose the call
Dispatch ==
    /\ pc = "for"
    /\ idx <= Len(file_content)
    /\ file_content[idx] # <<>>
    /\ block' = file_content[idx]
    /\ \E found \in {FindAll(patMsgid, file_content[idx])} :
        /\ msgid' = found
        /\ pc' = Route(file_content[idx], found)
        /\ routes' = Append(routes, Route(file_content[idx], found))
    /\ UNCHANGED <<exists, disk, run, read_text, file_content, idx, result,
                   content, indentation_depth, translated, i, lines, sent,
                   writes, err, kind>>

\* result.append(r.out) without the continue: the block falls through to the
\* next branch and is appended a second time
AppendOrRaise_NoContinue(r) ==
    /\ sent' = sent \o r.sent
    /\ IF r.ok
       THEN /\ result' = Append(Append(result, r.out), r.out)
            /\ idx' = idx + 1
            /\ pc' = "for"
            /\ UNCHANGED err
       ELSE /\ pc' = "raised"
            /\ err' = r.err
            /\ UNCHANGED <<result, idx>>

\* result.append(r.out); continue -- or the exception leaves the call
AppendOrRaise(r) ==
    /\ sent' = sent \o r.sent
    /\ IF r.ok
       THEN /\ result' = Append(result, r.out)
            /\ idx' = idx + 1
            /\ pc' = "for"
            /\ UNCHANGED err
       ELSE /\ pc' = "raised"
            /\ err' = r.err
            /\ UNCHANGED <<result, idx>>

\* result.append(self.process_first_block(block=block))
ProcessFirstBlock(fails) ==
    /\ pc = "process_first_block"
    /\ \E r \in {process_first_block(block, kind, fails)} : AppendOrRaise(r)
    /\ UNCHANGED <<exists, disk, run, read_text, file_content, routes, writes, kind>>
    /\ UNCHANGED round

\* the file is written after every block instead of once after the loop
TranslateBlock_WritesEachBlock(fails) ==
    /\ pc = "translate_block"
    /\ \E r \in {translate_block(block, msgid, kind, fails)} :
        /\ AppendOrRaise(r)
        /\ disk' = IF r.ok THEN JoinWith(Append(result, r.out), BlockSeparator) ELSE disk
        /\ writes' = IF r.ok THEN writes + 1 ELSE writes
    /\ UNCHANGED <<exists, run, read_text, file_content, routes, kind>>
    /\ UNCHANGED round

\* result.append(self.translate_block(block=block, msgid=msgid))
TranslateBlock(fails) ==
    /\ pc = "translate_block"
    /\ \E r \in {translate_block(block, msgid, kind, fails)} : AppendOrRaise(r)
    /\ UNCHANGED <<exists, disk, run, read_text, file_content, routes, writes, kind>>
    /\ UNCHANGED round

\* multiline_text.get_content()
GetContent ==
    /\ pc = "get_content"
    /\ \E c \in {get_content(try_create_multline(block).regex_block)} :
        IF c.ok
        THEN /\ content' = c.content
             /\ indentation_depth' = c.indentation_depth
             /\ pc' = "translate"
             /\ UNCHANGED err
        ELSE /\ pc' = "raised"
             /\ err' = "IndexError"
             /\ UNCHANGED <<content, indentation_depth>>
    /\ UNCHANGED <<exists, disk, run, read_text, file_content, idx, block,
                   msgid, result, translated, i, lines, sent, routes, writes, kind>>

\* translate_multi_line_block up to the while loop
TranslateText(fails) ==
    /\ pc = "translate"
    /\ sent' = Append(sent, content)
    /\ IF fails
       THEN /\ pc' = "raised"
            /\ err' = "BackendError"
            /\ UNCHANGED <<translated, i, lines>>
       ELSE /\ translated' = StripSuffix(Translate(kind, content))
            /\ i' = 0
            /\ lines' = <<>>
            /\ pc' = "while"
            /\ UNCHANGED err
    /\ UNCHANGED <<exists, disk, run, read_text, file_content, idx, block,
                   msgid, result, content, indentation_depth, routes, writes, kind>>

\* one round of while i < chunks
Chunk ==
    /\ pc = "while"
    /\ i < Len(translated)
    /\ \E st \in {ChunkStep(translated, indentation_depth, [i |-> i, lines |-> lines])} :
        /\ i' = st.i
        /\ lines' = st.lines
    /\ UNCHANGED <<exists, disk, run, pc, read_text, file_content, idx, block,
                   msgid, result, content, indentation_depth, translated,
                   sent, routes, writes, err, kind>>

\* translate_multi_line_block after the loop, and result.append of its result
Finish ==
    /\ pc = "while"
    /\ i >= Len(translated)
    /\ \E r \in {FinishBlock(block, indentation_depth, lines, <<>>)} :
        /\ AppendOrRaise(r)
        /\ lines' = IF lines = <<>> THEN lines ELSE MarkLast(lines)
    /\ UNCHANGED <<exists, disk, run, read_text, file_content, block, msgid,
                   content, indentation_depth, translated, i, routes, writes, kind>>

\* po_file.write_text("\n\n".join(result))
WriteFile ==
    /\ pc = "for"
    /\ idx > Len(file_content)
    /\ disk' = JoinWith(result, BlockSeparator)
    /\ writes' = writes + 1
    /\ pc' = "done"
    /\ UNCHANGED <<exists, run, read_text, file_content, idx, result, sent,
                   routes, err, kind>>
    /\ UNCHANGED round

\* the command is run again on the catalog it wrote
RunAgain ==
    /\ pc = "done"
    /\ run < MaxRuns
    /\ run' = run + 1
    /\ pc' = "start"
    /\ UNCHANGED <<exists, disk, read_text, file_content, idx, result, sent,
                   routes, writes, err, kind>>
    /\ UNCHANGED round

Next ==
    \/ RaiseMissing
    \/ ReadFile
    \/ SkipEmpty
    \/ Dispatch
    \/ \E fails \in BOOLEAN : ProcessFirstBlock(fails)
    \/ \E fails \in BOOLEAN : TranslateBlock(fails)
    \/ GetContent
    \/ \E fails \in BOOLEAN : TranslateText(fails)
    \/ Chunk
    \/ Finish
    \/ WriteFile
    \/ RunAgain

Spec == Init /\ [][Next]_vars

(***************************************************************************)
(* Properties                                                              *)
(***************************************************************************)
\* the last block dispatched has been processed and its result appended
Appended(route) ==
    /\ pc = "for"
    /\ routes # <<>>
    /\ routes[Len(routes)] = route
    /\ Len(result) = Len(routes)

\* a block of exactly two lines, msgid "..." and msgstr "...", whose msgstr
\* value is not empty
SingleLineTranslated(b) ==
    LET parts == SplitOn(b, <<NL>>)
    IN  /\ Len(parts) = 2
        /\ StartsAt(parts[1], 1, patMsgid)
        /\ parts[1][Len(parts[1])] = Q
        /\ StartsAt(parts[2], 1, patMsgstr)
        /\ Len(parts[2]) > Len(patMsgstr) + 1
        /\ parts[2][Len(parts[2])] = Q

\* C1: translate_block on a single-line block whose msgstr value is not
\* empty returns the block unchanged (it is what result receives) and hands
\* nothing to the backend during the call.
C1_SkipAlreadyTranslated ==
    [][(pc = "translate_block" /\ SingleLineTranslated(block))
        => (pc' = "for" /\ result' = Append(result, block) /\ sent' = sent)]_vars

\* C1 witness: a translated single-line block went through translate_block,
\* came back as it was, and the backend has not been called at all.
C1_Witness ==
    /\ Appended("translate_block")
    /\ SingleLineTranslated(block)
    /\ result[Len(result)] = block
    /\ sent = <<>>

\* C2: when the backend fails on any block, the catalog file still holds the
\* text that was read and no write has been made in this call; a write is
\* made only once per call, after the last block.
C2_AllOrNothingWrite ==
    /\ (pc = "raised" /\ err = "BackendError")
          => (disk = read_text /\ writes = run - 1)
    /\ \/ writes = run - 1
       \/ pc = "done" /\ writes = run /\ idx > Len(file_content)

\* C2 witness: the backend failed after an earlier block of the file had
\* been translated, so there was a partial result to write, and the file
\* is as it was read.
C2_Witness ==
    /\ pc = "raised"
    /\ err = "BackendError"
    /\ result # <<>>
    /\ result[1] # file_content[1]
    /\ disk = read_text

\* the while loop of translate_multi_line_block, run to its end
RECURSIVE WrapLines(_, _, _)
WrapLines(text, depth, st) ==
    IF st.i < Len(text) THEN WrapLines(text, depth, ChunkStep(text, depth, st)) ELSE st

\* what one block becomes when nothing raises
Processed(b) ==
    LET found == FindAll(patMsgid, b)
        route == Route(b, found)
    IN  CASE route = "process_first_block" -> process_first_block(b, kind, FALSE).out
          [] route = "translate_block" -> translate_block(b, found, kind, FALSE).out
          [] OTHER ->
                LET c == get_content(try_create_multline(b).regex_block)
                    text == StripSuffix(Translate(kind, c.content))
                    st == WrapLines(text, c.indentation_depth, [i |-> 0, lines |-> <<>>])
                IN  FinishBlock(b, c.indentation_depth, st.lines, <<>>).out

NonEmptyFragments == SelectSeq(SplitOn(read_text, BlockSeparator), LAMBDA b : b # <<>>)

\* C8: after a successful call the file holds the processed forms of
\* exactly the non-empty fragments of the text read, in their order and
\* number, joined by the separator.
C8_BlockOrderPreserved ==
    pc = "done" =>
        disk = JoinWith([k \in 1..Len(NonEmptyFragments) |-> Processed(NonEmptyFragments[k])],
                        BlockSeparator)

\* C8 witness: a file of two different blocks, at least one of them changed,
\* has been written.
C8_Witness ==
    /\ pc = "done"
    /\ Len(NonEmptyFragments) = 2
    /\ NonEmptyFragments[1] # NonEmptyFragments[2]
    /\ disk # read_text
    /\ Len(result) = 2

\* the file-header block: its only msgid is empty, msgstr "" follows at
\* once, and quoted header lines follow that
IsFileHeader(b) ==
    /\ FindAll(patMsgid, b) = << <<>> >>
    /\ StartsAt(b, 1, Entry(<<>>, <<>>) \o <<NL, Q>>)

\* C7: the file-header block is routed to process_first_block, not to
\* translate_block on the whole block and not to the multi-line pipeline.
C7_HeaderRouting ==
    (pc \in {"process_first_block", "translate_block", "get_content"} /\ IsFileHeader(block))
        => pc = "process_first_block"

\* the text a continuation line carries: quotes, indentation and a final
\* escaped-newline marker taken off
LineText(line) ==
    LET inner == Strip(PySlice(line, 1, -1))
    IN  IF PyFrom(inner, -2) = EscapedNewline THEN PySlice(inner, 0, -2) ELSE inner

\* the continuation lines of a recognised block: the lines of the third
\* group of get_regex_block
ContinuationOf(b) ==
    LET parts == SplitOn(get_regex_block(b)[3], <<NL>>)
    IN  SubSeq(parts, 1, Len(parts) - 1)

\* the logical text: the texts of the lines that carry any, once each,
\* joined by single spaces
LogicalText(b) ==
    LET texts == [k \in 1..Len(ContinuationOf(b)) |-> LineText(ContinuationOf(b)[k])]
    IN  JoinWith(SelectSeq(texts, LAMBDA t : t # <<>>), <<SP>>)

\* C9: get_content returns the logical text of a recognised block: quotes
\* and escaped-newline markers stripped, the line texts joined by single
\* spaces, each line once.
C9_ParserExtraction ==
    pc = "translate" => content = LogicalText(block)

\* the wrapped lines as they are written: the template of re.sub expanded
WrittenLines ==
    ExpandTemplate(JoinWith(ReplaceLines(indentation_depth, lines), <<NL>>)).s

\* the Parser on the wrapped lines, read back as the continuation of a msgid
ParseBack ==
    LET regex == get_regex_block(kwMsgid \o <<SP>> \o WrittenLines
                                 \o <<NL>> \o MsgstrLine(<<>>))
    IN  IF regex = <<>>
        THEN [ok |-> FALSE, content |-> <<>>, indentation_depth |-> 0]
        ELSE get_content(regex)

RemoveSpaces(text) == SelectSeq(text, LAMBDA c : c # SP)

\* C3: with the backend returning s and its two-character suffix, the lines
\* wrapped at depth d parse back to s, up to the spaces that join fragments,
\* and to indentation depth d.
C3_RoundTrip ==
    (Appended("get_content") /\ kind = "suffix") =>
        /\ ParseBack.ok
        /\ RemoveSpaces(ParseBack.content) = RemoveSpaces(translated)
        /\ ParseBack.indentation_depth = indentation_depth

\* C4: a second pass with the identity backend over a catalog that is one
\* rewritten multi-line block writes back the text it read.
C4_FormatStable ==
    (pc = "done" /\ run = 2 /\ kind = "echo" /\ routes = <<"get_content">>)
        => disk = read_text

\* the width between the quotes of wrapped line k as the catalog holds it:
\* the indentation of the first line is not counted, and the terminal
\* marker counts as the two characters it is written as
WrittenWidth(k) ==
    Len(lines[k]) - 2
    - (IF k = 1 THEN indentation_depth ELSE 0)
    - (IF k = Len(lines) THEN 1 ELSE 0)

\* C5: every wrapped line but the first is at most 80 wide between its
\* quotes, and the first, its indentation aside, at most 80 - d.
C5_ChunkWidth ==
    Appended("get_content") =>
        \A k \in 1..Len(lines) :
            WrittenWidth(k) <= (IF k = 1 THEN chunk_size - indentation_depth ELSE chunk_size)

\* C6: translate_multi_line_block ends its loop with a non-empty list of
\* wrapped lines, and the last line it returns ends with the escaped
\* newline right before the closing quote.
C6_TerminalMarker ==
    /\ (pc = "while" /\ i >= Len(translated)) => lines # <<>>
    /\ Appended("get_content") =>
          PyFrom(lines[Len(lines)], -3) = EscapedNewline \o <<Q>>

\* the text of wrapped line k: the quotes off, and the indentation off the
\* first
ChunkText(k) ==
    PySlice(lines[k], 1 + (IF k = 1 THEN indentation_depth ELSE 0), -1)

\* text is the chunks k.. in order, where an escaped-newline marker may be
\* missing after a chunk and nothing else is
RECURSIVE Covers(_, _)
Covers(text, k) ==
    IF k > Len(lines) THEN text = <<>>
    ELSE /\ StartsAt(text, 1, ChunkText(k)) \/ ChunkText(k) = <<>>
         /\ LET rest == PyFrom(text, Len(ChunkText(k)))
            IN  \/ Covers(rest, k + 1)
                \/ StartsAt(rest, 1, EscapedNewline) /\ Covers(PyFrom(rest, 2), k + 1)

\* C10: when the loop ends, the chunks emitted, in order, are the translated
\* text with nothing but chunk-final escaped-newline markers removed, for
\* every depth below 80.
C10_NoTextLost ==
    (pc = "while" /\ i >= Len(translated)
        /\ indentation_depth >= 0 /\ indentation_depth < chunk_size)
        => Covers(translated, 1)

=============================================================================
